---- MODULE Spec2Model ----
(***************************************************************************)
(* Model of the VCIDSpice operating-point solver                           *)
(* (src/src/simulation/op.rs, src/src/simulation/role.rs,                  *)
(*  src/src/general/role.rs, src/src/general/circuit.rs).                  *)
(*                                                                         *)
(* Numbers.  The program computes in f64.  An f64 is modelled as a binary  *)
(* fixed-point number: the integer k stands for k/Scale, finite values lie *)
(* in -MaxF..MaxF, a result beyond that range overflows to +inf or -inf,   *)
(* results are rounded to the nearest representable value (ties to even),  *)
(* a result below half a unit underflows to 0, and inf - inf, 0 * inf,     *)
(* 0/0 and inf/inf are NaN, which propagates.  Scale (the precision) and   *)
(* MaxF (the range) are bounds of the model: f64 has 2^-1074 and about     *)
(* 1.8e308 in their place.  Signed zero is not modelled.                   *)
(***************************************************************************)
EXTENDS Integers, Sequences, FiniteSets

----------------------------------------------------------------------------
(* Bounds of the model *)

\* 1.0 is Scale units: the resolution of the modelled f64
Scale == 1024
\* largest finite magnitude, in units (32.0)
MaxF == 32768
\* nodes_count ranges over 1..MaxNodes
MaxNodes == 2
\* a circuit holds at most MaxComps components
MaxComps == 2

(* Program constants *)

\* op.rs:87  let max_iterations = 10_000;
max_iterations == 10000

----------------------------------------------------------------------------
(* f64: values and arithmetic *)

PInf == MaxF + 1
NInf == -(MaxF + 1)
NaN == MaxF + 2

IsNaN(x) == x = NaN
IsFinite(x) == x >= -MaxF /\ x <= MaxF

\* an exact result brought into the format: overflow gives an infinity
Sat(k) == IF k > MaxF THEN PInf ELSE IF k < -MaxF THEN NInf ELSE k

\* n / d for d > 0, rounded to the nearest integer, ties to even
RoundDivPos(n, d) ==
    LET q == n \div d
        r == n % d
    IN  IF 2 * r < d THEN q
        ELSE IF 2 * r > d THEN q + 1
        ELSE IF q % 2 = 0 THEN q ELSE q + 1

RoundDiv(n, d) == IF d > 0 THEN RoundDivPos(n, d) ELSE RoundDivPos(-n, -d)

SignOf(x) == IF x > 0 THEN 1 ELSE IF x < 0 THEN -1 ELSE 0

FNeg(x) == IF IsNaN(x) THEN NaN ELSE -x

FAdd(a, b) ==
    IF IsNaN(a) \/ IsNaN(b) THEN NaN
    ELSE IF ~IsFinite(a) THEN (IF ~IsFinite(b) /\ b # a THEN NaN ELSE a)
    ELSE IF ~IsFinite(b) THEN b
    ELSE Sat(a + b)

FSub(a, b) == FAdd(a, FNeg(b))

FMul(a, b) ==
    IF IsNaN(a) \/ IsNaN(b) THEN NaN
    ELSE IF ~IsFinite(a) \/ ~IsFinite(b)
         THEN (IF a = 0 \/ b = 0 THEN NaN
               ELSE IF SignOf(a) * SignOf(b) > 0 THEN PInf ELSE NInf)
    ELSE Sat(RoundDiv(a * b, Scale))

FDiv(a, b) ==
    IF IsNaN(a) \/ IsNaN(b) THEN NaN
    ELSE IF ~IsFinite(a)
         THEN (IF ~IsFinite(b) THEN NaN
               ELSE IF SignOf(a) * (IF b < 0 THEN -1 ELSE 1) > 0 THEN PInf ELSE NInf)
    ELSE IF ~IsFinite(b) THEN 0
    ELSE IF b = 0
         THEN (IF a = 0 THEN NaN ELSE IF a > 0 THEN PInf ELSE NInf)
    ELSE Sat(RoundDiv(a * Scale, b))

FAbs(x) == IF IsNaN(x) THEN NaN ELSE IF x < 0 THEN -x ELSE x

\* the comparisons of f64: every comparison with NaN is false
FGt(a, b) == ~IsNaN(a) /\ ~IsNaN(b) /\ a > b
FLt(a, b) == ~IsNaN(a) /\ ~IsNaN(b) /\ a < b
FLe(a, b) == ~IsNaN(a) /\ ~IsNaN(b) /\ a <= b

\* f64::max and f64::min: when one argument is NaN the other is returned
F64Max(a, b) == IF IsNaN(a) THEN b ELSE IF IsNaN(b) THEN a ELSE IF a > b THEN a ELSE b
F64Min(a, b) == IF IsNaN(a) THEN b ELSE IF IsNaN(b) THEN a ELSE IF a < b THEN a ELSE b

\* f64::clamp: NaN stays NaN
F64Clamp(x, lo, hi) == IF IsNaN(x) THEN NaN ELSE IF x < lo THEN lo ELSE IF x > hi THEN hi ELSE x

\* the literals of the program, in units
One == Scale
Half == RoundDiv(Scale, 2)
OnePointOne == RoundDiv(Scale * 11, 10)
Five == 5 * Scale
ThermalVoltage == RoundDiv(Scale * 25852, 1000000)
EulerE == RoundDiv(Scale * 2718, 1000)

\* e^(f/Scale) for 0 <= f < Scale, by the Taylor series, in units
RECURSIVE ExpSeries(_, _, _, _)
ExpSeries(f, term, i, acc) ==
    IF term = 0 THEN acc
    ELSE ExpSeries(f, RoundDiv(term * f, Scale * i), i + 1, acc + term)

\* base^k for an integer k >= 0, with the format's rounding and overflow
RECURSIVE PowInt(_, _)
PowInt(base, k) == IF k = 0 THEN One ELSE FMul(base, PowInt(base, k - 1))

\* E.powf(x)
ExpF(x) ==
    IF IsNaN(x) THEN NaN
    ELSE IF x = PInf THEN PInf
    ELSE IF x = NInf THEN 0
    ELSE LET k == x \div Scale
             f == x % Scale
             frac == ExpSeries(f, One, 1, 0)
         IN  IF k >= 0 THEN FMul(PowInt(EulerE, k), frac)
             ELSE FDiv(frac, PowInt(EulerE, -k))

----------------------------------------------------------------------------
(* The circuit (general/circuit.rs) and its roles (simulation/role.rs) *)

VARIABLES
    components,        \* circuit.components
    nodes_count,       \* circuit.nodes_count
    ground_node,       \* circuit.ground_node
    t_vir,             \* the scale factor
    tolerance,         \* the convergence threshold
    initial_voltages,  \* the Option: [some |-> BOOLEAN, v |-> vector]
    roles,             \* roles[node]: the sequence of roles of the node
    voltages,
    charges,
    delta_vs,
    damper,
    prev_voltages,
    prev_error,
    iteration,
    max_delta_v,       \* the error metric of the last loop pass
    reverted,          \* whether the last loop pass took the revert branch
    converged,         \* whether the loop left through the convergence exit
    accepted,          \* accepted loop passes of this call
    pc,                \* "loop", "final" (op.rs:161) or "done" (returned)
    result,            \* the returned vector
    call,              \* 1: the first call, 2: the re-solve from its result
    first_result,      \* the vector the first call returned
    first_accepted,    \* accepted passes of the first call
    soa_q_vir,         \* what general::role::q_vir_impact returned
    soa_delta_v        \* what general::role::delta_v_impact returned

vars == <<components, nodes_count, ground_node, t_vir, tolerance, initial_voltages,
          roles, voltages, charges, delta_vs, damper, prev_voltages, prev_error,
          iteration, max_delta_v, reverted, converged, accepted, pc, result,
          call, first_result, first_accepted, soa_q_vir, soa_delta_v>>

Nodes(n) == 0 .. (n - 1)

\* vec![0.0; n]
Zeros(n) == [node \in Nodes(n) |-> 0]

\* Role::ConstantCharge(current)
ConstantCharge(current) == [kind |-> "ConstantCharge", current |-> current]

\* Role::Linear { conductance, neighbor }
Linear(conductance, neighbor) ==
    [kind |-> "Linear", conductance |-> conductance, neighbor |-> neighbor]

\* Role::Exponential { i_s, n, neighbor, anode, cathode, flip }
Exponential(i_s, n, neighbor, anode, cathode, flip) ==
    [kind |-> "Exponential", i_s |-> i_s, n |-> n, neighbor |-> neighbor,
     anode |-> anode, cathode |-> cathode, flip |-> flip]

\* roles[node].push(role)
Push(rs, node, role) == [rs EXCEPT ![node] = Append(@, role)]

\* a voltage source compiled like a current source of v
VoltageDcAsSource(rs, c, tv) == Push(rs, c.anode, ConstantCharge(FMul(c.v, tv)))

\* op.rs:42-45: a voltage source adds no role
VoltageDcRoles(rs, c, tv) == rs

\* op.rs:46-51
CurrentDcRoles(rs, c, tv) ==
    LET scaled_current == FMul(c.current, tv)
    IN  Push(Push(rs, c.anode, ConstantCharge(scaled_current)),
             c.cathode, ConstantCharge(FNeg(scaled_current)))

\* op.rs:52-63
ResistorRoles(rs, c, tv) ==
    LET conductance == FDiv(tv, c.r)
    IN  Push(Push(rs, c.pin1, Linear(conductance, c.pin2)),
             c.pin2, Linear(conductance, c.pin1))

\* op.rs:64-82
DiodeRoles(rs, c, tv) ==
    Push(Push(rs, c.anode,
              Exponential(FMul(c.i_s, tv), c.n, c.cathode, c.anode, c.cathode, -One)),
         c.cathode,
         Exponential(FMul(c.i_s, tv), c.n, c.anode, c.anode, c.cathode, One))

\* op.rs:41-83: the match on one component
ComponentRoles(rs, c, tv) ==
    CASE c.kind = "VoltageDc" -> VoltageDcRoles(rs, c, tv)
      [] c.kind = "CurrentDc" -> CurrentDcRoles(rs, c, tv)
      [] c.kind = "Resistor" -> ResistorRoles(rs, c, tv)
      [] c.kind = "Diode" -> DiodeRoles(rs, c, tv)

\* op.rs:37-84: the preprocessing loop over circuit.components
RECURSIVE BuildRoles(_, _, _)
BuildRoles(comps, n, tv) ==
    IF comps = <<>> THEN [node \in Nodes(n) |-> <<>>]
    ELSE ComponentRoles(BuildRoles(SubSeq(comps, 1, Len(comps) - 1), n, tv),
                        comps[Len(comps)], tv)

\* Role::q_vir_impact (simulation/role.rs:28-42)
RoleQVirImpact(role, vs, target_node) ==
    CASE role.kind = "ConstantCharge" -> role.current
      [] role.kind = "Linear" ->
            FMul(role.conductance, FSub(vs[role.neighbor], vs[target_node]))
      [] role.kind = "Exponential" ->
            LET v_diff == F64Clamp(FSub(vs[role.anode], vs[role.cathode]), -Five, Five)
            IN  FMul(FMul(role.flip, role.i_s),
                     FSub(ExpF(FDiv(v_diff, FMul(role.n, ThermalVoltage))), One))

\* Role::delta_v_impact (simulation/role.rs:49-56)
RoleDeltaVImpact(role, cs, d, target_node) ==
    IF role.kind = "ConstantCharge" THEN 0
    ELSE FMul(d, FSub(cs[target_node], cs[role.neighbor]))

\* Iterator::sum over f64, left to right from 0.0
RECURSIVE SumF(_)
SumF(xs) == IF xs = <<>> THEN 0 ELSE FAdd(SumF(SubSeq(xs, 1, Len(xs) - 1)), xs[Len(xs)])

\* op.rs:99-106
ComputeCharges(rs, vs, n) ==
    [node \in Nodes(n) |->
        SumF([i \in 1 .. Len(rs[node]) |-> RoleQVirImpact(rs[node][i], vs, node)])]

\* op.rs:108-116
ComputeDeltaVs(rs, cs, d, n) ==
    [node \in Nodes(n) |->
        SumF([i \in 1 .. Len(rs[node]) |-> RoleDeltaVImpact(rs[node][i], cs, d, node)])]

\* op.rs:118-121
ApplyUpdate(vs, dvs, n) == [node \in Nodes(n) |-> FAdd(vs[node], dvs[node])]

\* op.rs:123-127: fold(0.0, f64::max) over |dv|, in node order
RECURSIVE MaxAbs(_, _)
MaxAbs(dvs, k) == IF k = 0 THEN 0 ELSE F64Max(MaxAbs(dvs, k - 1), FAbs(dvs[k - 1]))

\* the overshoot test never firing
NeverOvershoot(m, pe) == FALSE

\* op.rs:133: the error grew
Overshoot(m, pe) == FGt(m, pe)

\* the convergence test with <= in place of <
ConvergedTestInclusive(m, tol) == FLe(m, tol)

\* op.rs:149: the convergence test
ConvergedTest(m, tol) == FLt(m, tol)

\* op.rs:136
Halve(d) == FMul(d, Half)

\* op.rs:143
Grow(d) == F64Min(FMul(d, OnePointOne), One)

\* the ceiling test with > in place of >=
CeilingPassed(it) == it > max_iterations

\* op.rs:155: the iteration ceiling
CeilingReached(it) == it >= max_iterations

\* prev_error starting at -infinity
LowestPrevError == NInf

\* op.rs:95
InitialPrevError == PInf

\* the revert branch keeping the updated voltages
KeepUpdate(vs, pv) == vs

\* op.rs:135: voltages = prev_voltages.clone()
Revert(vs, pv) == pv

\* op.rs:161-166: subtract the ground voltage from every entry
Normalize(vs, g, n) == [node \in Nodes(n) |-> FSub(vs[node], vs[g])]

----------------------------------------------------------------------------
(* The struct-of-arrays form (general/role.rs) *)

\* a returned vector, or the panic of an index out of bounds
Returned(v) == [panic |-> FALSE, v |-> v]
Panicked(v) == [panic |-> TRUE, v |-> v]

\* the roles of all nodes in node order, each with its target node
RECURSIVE Targeted(_, _)
Targeted(rs, n) ==
    IF n = 0 THEN <<>>
    ELSE Targeted(rs, n - 1) \o
         [i \in 1 .. Len(rs[n - 1]) |-> [role |-> rs[n - 1][i], target |-> n - 1]]

OfKind(ts, kind) == SelectSeq(ts, LAMBDA t : t.role.kind = kind)

\* struct ConstantCharges { currents, target_nodes }
ConstantCharges(rs, n) ==
    LET ts == OfKind(Targeted(rs, n), "ConstantCharge")
    IN  [currents |-> [i \in 1 .. Len(ts) |-> ts[i].role.current],
         target_nodes |-> [i \in 1 .. Len(ts) |-> ts[i].target]]

\* struct LinearContributions { conductances, neighbors, target_nodes }
LinearContributions(rs, n) ==
    LET ts == OfKind(Targeted(rs, n), "Linear")
    IN  [conductances |-> [i \in 1 .. Len(ts) |-> ts[i].role.conductance],
         neighbors |-> [i \in 1 .. Len(ts) |-> ts[i].role.neighbor],
         target_nodes |-> [i \in 1 .. Len(ts) |-> ts[i].target]]

\* struct ExponentialContributions { i_s, n, anodes, cathodes, flips, target_nodes }
ExponentialContributions(rs, n) ==
    LET ts == OfKind(Targeted(rs, n), "Exponential")
    IN  [i_s |-> [i \in 1 .. Len(ts) |-> ts[i].role.i_s],
         n |-> [i \in 1 .. Len(ts) |-> ts[i].role.n],
         anodes |-> [i \in 1 .. Len(ts) |-> ts[i].role.anode],
         cathodes |-> [i \in 1 .. Len(ts) |-> ts[i].role.cathode],
         flips |-> [i \in 1 .. Len(ts) |-> ts[i].role.flip],
         target_nodes |-> [i \in 1 .. Len(ts) |-> ts[i].target]]

\* vec[target] += x, which panics when target is out of bounds
AddAt(acc, target, x) ==
    IF acc.panic THEN acc
    ELSE IF target \notin DOMAIN acc.v THEN Panicked(acc.v)
    ELSE Returned([acc.v EXCEPT ![target] = FAdd(@, x)])

\* general/role.rs:70-73
RECURSIVE QVirConstLoop(_, _, _)
QVirConstLoop(acc, k, consts) ==
    IF k = 0 THEN acc
    ELSE AddAt(QVirConstLoop(acc, k - 1, consts), consts.target_nodes[k],
               consts.currents[k])

\* general/role.rs:75-80
RECURSIVE QVirLinearLoop(_, _, _, _)
QVirLinearLoop(acc, k, vs, linears) ==
    IF k = 0 THEN acc
    ELSE AddAt(QVirLinearLoop(acc, k - 1, vs, linears), linears.target_nodes[k],
               FMul(linears.conductances[k],
                    FSub(vs[linears.neighbors[k]], vs[linears.target_nodes[k]])))

\* general/role.rs:82-88
RECURSIVE QVirExpLoop(_, _, _, _)
QVirExpLoop(acc, k, vs, exps) ==
    IF k = 0 THEN acc
    ELSE LET v_diff == F64Clamp(FSub(vs[exps.anodes[k]], vs[exps.cathodes[k]]),
                                -Five, Five)
             current == FMul(FMul(exps.flips[k], exps.i_s[k]),
                             FSub(ExpF(FDiv(v_diff, FMul(exps.n[k], ThermalVoltage))),
                                  One))
         IN  AddAt(QVirExpLoop(acc, k - 1, vs, exps), exps.target_nodes[k], current)

\* q_vir_impact (general/role.rs:62-91); n is voltages.len()
SoaQVirImpact(vs, n, consts, linears, exps) ==
    QVirExpLoop(
        QVirLinearLoop(
            QVirConstLoop(Returned(Zeros(n)), Len(consts.currents), consts),
            Len(linears.conductances), vs, linears),
        Len(exps.i_s), vs, exps)

\* general/role.rs:103-107
RECURSIVE DeltaVLinearLoop(_, _, _, _, _)
DeltaVLinearLoop(acc, k, cs, d, linears) ==
    IF k = 0 THEN acc
    ELSE AddAt(DeltaVLinearLoop(acc, k - 1, cs, d, linears), linears.target_nodes[k],
               FMul(d, FSub(cs[linears.target_nodes[k]], cs[linears.neighbors[k]])))

\* general/role.rs:110-114: the loop over the exponential roles reads
\* linears.target_nodes[i] and linears.neighbors[i]
RECURSIVE DeltaVExpLoop(_, _, _, _, _)
DeltaVExpLoop(acc, k, cs, d, linears) ==
    IF k = 0 THEN acc
    ELSE LET before == DeltaVExpLoop(acc, k - 1, cs, d, linears)
         IN  IF k > Len(linears.target_nodes) THEN Panicked(before.v)
             ELSE AddAt(before, linears.target_nodes[k],
                        FMul(d, FSub(cs[linears.target_nodes[k]],
                                     cs[linears.neighbors[k]])))

\* delta_v_impact (general/role.rs:93-117): the vector has
\* consts.currents.len() entries
SoaDeltaVImpact(cs, d, consts, linears, exps) ==
    DeltaVExpLoop(
        DeltaVLinearLoop(Returned(Zeros(Len(consts.currents))),
                         Len(linears.conductances), cs, d, linears),
        Len(exps.i_s), cs, d, linears)

----------------------------------------------------------------------------
(* The inputs of a call *)

\* pin pairs of the components: node i and the next node
Pairs(n) == {<<i, (i + 1) % n>> : i \in Nodes(n)}

\* 16.0 and 0.25 ohm: a slowly converging and an overshooting branch at
\* t_vir = 1.0
Resistances == {16 * Scale, Scale \div 4}

\* the ground node: the first or the last node
Grounds(n) == {0, n - 1}

\* a source of 1.0 into the last node
CurrentDcs(n) ==
    {[kind |-> "CurrentDc", anode |-> n - 1, cathode |-> 0, current |-> One]}

Resistors(n) ==
    {[kind |-> "Resistor", pin1 |-> p[1], pin2 |-> p[2], r |-> 16 * Scale] :
        p \in Pairs(n)}

Diodes(n) ==
    {[kind |-> "Diode", anode |-> n - 1, cathode |-> 0,
      i_s |-> Scale \div 64, n |-> 2 * Scale]}

\* voltage sources, one of them with a pin that is no node
VoltageDcs(n) ==
    {[kind |-> "VoltageDc", anode |-> n - 1, cathode |-> 0, v |-> One],
     [kind |-> "VoltageDc", anode |-> 0, cathode |-> n, v |-> Five]}

Universe(n) == CurrentDcs(n) \cup Resistors(n) \cup Diodes(n) \cup VoltageDcs(n)

\* the elements of a set in some fixed order
RECURSIVE SetToSeq(_)
SetToSeq(U) ==
    IF U = {} THEN <<>>
    ELSE LET c == CHOOSE x \in U : TRUE IN <<c>> \o SetToSeq(U \ {c})

\* the component lists made of at most MaxComps distinct components of the universe
Subcircuits(n) == {SetToSeq(U) : U \in {W \in SUBSET Universe(n) : Cardinality(W) <= MaxComps}}

\* nothing at all, or a current source with one resistor or diode across it
SourcedBranches(n) ==
    {<<>>} \cup
    {<<[kind |-> "CurrentDc", anode |-> (n - 1), cathode |-> 0, current |-> One], b>> :
        b \in {[kind |-> "Resistor", pin1 |-> 0, pin2 |-> n - 1, r |-> r] :
                  r \in Resistances}
              \cup {[kind |-> "Diode", anode |-> n - 1, cathode |-> 0,
                     i_s |-> Scale \div 64, n |-> 2 * Scale],
                    [kind |-> "Diode", anode |-> 0, cathode |-> n - 1,
                     i_s |-> Scale \div 64, n |-> 2 * Scale]}}

\* the component lists of the calls
Circuits(n) == Subcircuits(n) \cup SourcedBranches(n)

\* about 0.008 and 0.125
Tolerances == {Scale \div 128, Scale \div 8}

TVirs == {One}

None(n) == [some |-> FALSE, v |-> Zeros(n)]
Some(v) == [some |-> TRUE, v |-> v]

\* None, or a guess with node i at 10.0 * i
Guesses(n) == {None(n), Some([node \in Nodes(n) |-> 10 * Scale * node])}

----------------------------------------------------------------------------
(* simulate_op (simulation/op.rs) *)

\* op.rs:24-95: the state of a call when it reaches the loop
Enter(comps, n, g, tv, tol, init, c, fr, fa) ==
    [components |-> comps,
     nodes_count |-> n,
     ground_node |-> g,
     t_vir |-> tv,
     tolerance |-> tol,
     initial_voltages |-> init,
     roles |-> BuildRoles(comps, n, tv),
     voltages |-> (IF init.some THEN init.v ELSE Zeros(n)),
     charges |-> Zeros(n),
     delta_vs |-> Zeros(n),
     damper |-> One,
     prev_voltages |-> (IF init.some THEN init.v ELSE Zeros(n)),
     prev_error |-> InitialPrevError,
     iteration |-> 0,
     max_delta_v |-> 0,
     reverted |-> FALSE,
     converged |-> FALSE,
     accepted |-> 0,
     pc |-> "loop",
     result |-> Zeros(n),
     call |-> c,
     first_result |-> fr,
     first_accepted |-> fa,
     soa_q_vir |-> Returned(Zeros(n)),
     soa_delta_v |-> Returned(Zeros(n))]

\* the variables hold the entry state st
StartsAt(st) ==
    /\ components = st.components
    /\ nodes_count = st.nodes_count
    /\ ground_node = st.ground_node
    /\ t_vir = st.t_vir
    /\ tolerance = st.tolerance
    /\ initial_voltages = st.initial_voltages
    /\ roles = st.roles
    /\ voltages = st.voltages
    /\ charges = st.charges
    /\ delta_vs = st.delta_vs
    /\ damper = st.damper
    /\ prev_voltages = st.prev_voltages
    /\ prev_error = st.prev_error
    /\ iteration = st.iteration
    /\ max_delta_v = st.max_delta_v
    /\ reverted = st.reverted
    /\ converged = st.converged
    /\ accepted = st.accepted
    /\ pc = st.pc
    /\ result = st.result
    /\ call = st.call
    /\ first_result = st.first_result
    /\ first_accepted = st.first_accepted
    /\ soa_q_vir = st.soa_q_vir
    /\ soa_delta_v = st.soa_delta_v

\* a call with a positive tolerance
InitPositive ==
    \E n \in 1 .. MaxNodes :
      \E g \in Grounds(n), comps \in Circuits(n),
         tv \in TVirs, tol \in Tolerances, init \in Guesses(n) :
        StartsAt(Enter(comps, n, g, tv, tol, init, 1, Zeros(n), 0))

\* a call with tolerance 0.0
InitZeroTolerance ==
    \E comps \in SourcedBranches(MaxNodes), tv \in TVirs, init \in Guesses(MaxNodes) :
        StartsAt(Enter(comps, MaxNodes, 0, tv, 0, init, 1, Zeros(MaxNodes), 0))

Init == InitPositive \/ InitZeroTolerance

\* op.rs:98-159: one pass of the main loop
Iterate ==
    /\ pc = "loop"
    /\ charges' = ComputeCharges(roles, voltages, nodes_count)
    /\ delta_vs' = ComputeDeltaVs(roles, charges', damper, nodes_count)
    /\ max_delta_v' = MaxAbs(delta_vs', nodes_count)
    /\ reverted' = Overshoot(max_delta_v', prev_error)
    /\ IF reverted'
       THEN /\ voltages' = Revert(ApplyUpdate(voltages, delta_vs', nodes_count),
                                  prev_voltages)
            /\ damper' = Halve(damper)
            /\ UNCHANGED <<prev_voltages, prev_error, accepted>>
       ELSE /\ voltages' = ApplyUpdate(voltages, delta_vs', nodes_count)
            /\ prev_voltages' = voltages'
            /\ prev_error' = max_delta_v'
            /\ damper' = Grow(damper)
            /\ accepted' = accepted + 1
    /\ iteration' = iteration + 1
    /\ IF ConvergedTest(max_delta_v', tolerance)
       THEN pc' = "final" /\ converged' = TRUE
       ELSE IF CeilingReached(iteration')
            THEN pc' = "final" /\ converged' = FALSE
            ELSE pc' = "loop" /\ converged' = FALSE
    /\ UNCHANGED <<components, nodes_count, ground_node, t_vir, tolerance,
                   initial_voltages, roles, result, call, first_result, first_accepted,
                   soa_q_vir, soa_delta_v>>

\* op.rs:161-168: the final adjustment and the return
FinalAdjustment ==
    /\ pc = "final"
    /\ voltages' = Normalize(voltages, ground_node, nodes_count)
    /\ result' = Normalize(voltages, ground_node, nodes_count)
    /\ pc' = "done"
    /\ UNCHANGED <<components, nodes_count, ground_node, t_vir, tolerance,
                   initial_voltages, roles, charges, delta_vs, damper, prev_voltages,
                   prev_error, iteration, max_delta_v, reverted, converged, accepted,
                   call, first_result, first_accepted, soa_q_vir, soa_delta_v>>

\* the caller solves again from the vector a converged first call returned:
\* simulate_op(circuit, t_vir, tolerance, Some(r))
Resolve ==
    /\ pc = "done"
    /\ call = 1
    /\ converged
    /\ ~initial_voltages.some
    /\ LET st == Enter(components, nodes_count, ground_node, t_vir, tolerance,
                       Some(result), 2, result, accepted)
       IN
           /\ components' = st.components
           /\ nodes_count' = st.nodes_count
           /\ ground_node' = st.ground_node
           /\ t_vir' = st.t_vir
           /\ tolerance' = st.tolerance
           /\ initial_voltages' = st.initial_voltages
           /\ roles' = st.roles
           /\ voltages' = st.voltages
           /\ charges' = st.charges
           /\ delta_vs' = st.delta_vs
           /\ damper' = st.damper
           /\ prev_voltages' = st.prev_voltages
           /\ prev_error' = st.prev_error
           /\ iteration' = st.iteration
           /\ max_delta_v' = st.max_delta_v
           /\ reverted' = st.reverted
           /\ converged' = st.converged
           /\ accepted' = st.accepted
           /\ pc' = st.pc
           /\ result' = st.result
           /\ call' = st.call
           /\ first_result' = st.first_result
           /\ first_accepted' = st.first_accepted
           /\ soa_q_vir' = st.soa_q_vir
           /\ soa_delta_v' = st.soa_delta_v

\* the two free functions of general/role.rs applied to the compiled roles of
\* the circuit, the voltages of the call and the charges these give
EvaluateCompiled ==
    /\ pc = "loop"
    /\ iteration = 0
    /\ charges' = ComputeCharges(roles, voltages, nodes_count)
    /\ delta_vs' = ComputeDeltaVs(roles, charges', damper, nodes_count)
    /\ soa_q_vir' = SoaQVirImpact(voltages, nodes_count,
                                  ConstantCharges(roles, nodes_count),
                                  LinearContributions(roles, nodes_count),
                                  ExponentialContributions(roles, nodes_count))
    /\ soa_delta_v' = SoaDeltaVImpact(charges', damper,
                                      ConstantCharges(roles, nodes_count),
                                      LinearContributions(roles, nodes_count),
                                      ExponentialContributions(roles, nodes_count))
    /\ pc' = "compiled"
    /\ UNCHANGED <<components, nodes_count, ground_node, t_vir, tolerance,
                   initial_voltages, roles, voltages, damper, prev_voltages, prev_error,
                   iteration, max_delta_v, reverted, converged, accepted, result,
                   call, first_result, first_accepted>>

Next == Iterate \/ FinalAdjustment \/ Resolve

Spec == Init /\ [][Next]_vars

\* the struct-of-arrays functions on the inputs of a call
SpecSoa == InitPositive /\ [][EvaluateCompiled]_vars

----------------------------------------------------------------------------
(* The claims *)

\* C1: the returned vector has result[ground_node] == 0 exactly, on both exits
GroundIsZero == pc = "done" => result[ground_node] = 0

\* C2 (as stated): the loop stops as converged on a reverted pass, that is,
\* a state with reverted and converged both true is reached.  Read on the
\* runs that converge: the convergence exit is taken on a reverted pass
RevertedPassConverges == (pc = "final" /\ converged) => reverted

\* C2 (amended): a reverted loop pass never ends the solve as converged: its
\* error exceeds prev_error, which is at least the tolerance
RevertedPassNeverConverges ==
    reverted => (~converged /\ ~FLt(max_delta_v, tolerance))

\* a pass after the first was reverted and the loop went on
RevertedPassWitness == reverted /\ pc = "loop" /\ damper < One /\ iteration >= 2

\* C3: the re-solve from a converged result converges in at most one accepted
\* pass and returns the same voltages within tolerance
ResolveIsIdempotent ==
    (call = 2 /\ pc = "done") =>
        /\ converged
        /\ accepted <= 1
        /\ \A node \in Nodes(nodes_count) :
              FLe(FAbs(FSub(result[node], first_result[node])), tolerance)

\* C4: every loop pass adds one to iteration, whether accepted or reverted,
\* the loop is left no later than the pass on which iteration reaches 10,000,
\* and the call returns a vector of nodes_count voltages whether or not it
\* converged
AlwaysTerminates ==
    /\ [](iteration <= max_iterations)
    /\ [](pc = "loop" => iteration < max_iterations)
    /\ [](pc = "done" => DOMAIN result = Nodes(nodes_count))
    /\ [][pc = "loop" => (iteration' = iteration + 1 /\ pc' \in {"loop", "final"})]_vars
    /\ [][pc = "final" => pc' = "done"]_vars

\* a call that did not converge has returned after 10,000 passes, one of them reverted
CeilingWitness ==
    pc = "done" /\ ~converged /\ iteration = max_iterations /\ damper < One

\* C5: with tolerance 0.0 the convergence exit is never taken; the call makes
\* exactly 10,000 passes and returns through the ceiling exit
ZeroToleranceHitsCeiling ==
    tolerance = 0 =>
        /\ ~converged
        /\ (pc \in {"final", "done"} => iteration = max_iterations)

\* a call with tolerance 0.0 has returned while every delta_v was 0
ZeroToleranceWitness ==
    tolerance = 0 /\ pc = "done" /\ max_delta_v = 0 /\ iteration = max_iterations

\* C6: 0 < damper <= 1.0 in every state of the loop
DamperInRange == FGt(damper, 0) /\ FLe(damper, One)

----------------------------------------------------------------------------

WithoutDiodes(comps) == \A i \in 1 .. Len(comps) : comps[i].kind \in {"Resistor", "CurrentDc"}

\* the net scaled current the sources inject at the node
RECURSIVE InjectedCurrent(_)
InjectedCurrent(rs) ==
    IF rs = <<>> THEN 0
    ELSE InjectedCurrent(Tail(rs)) +
         (IF Head(rs).kind = "ConstantCharge" THEN Head(rs).current ELSE 0)

\* the total scaled conductance of the linear branches at the node
RECURSIVE BranchConductance(_)
BranchConductance(rs) ==
    IF rs = <<>> THEN 0
    ELSE BranchConductance(Tail(rs)) +
         (IF Head(rs).kind = "Linear" THEN Head(rs).conductance ELSE 0)

\* C7: for a circuit of resistors and current sources the vector returned
\* through the converged exit matches the analytic solution within tolerance.
\* With two nodes Kirchhoff's current law at node 1 is I = G * (V1 - V0), so
\* |(V1 - V0) - I/G| <= tolerance is |(V1 - V0) * G - I| <= tolerance * G.
\* Stated for the calls that return finite voltages
MatchesAnalyticSolution ==
    (/\ pc = "done" /\ call = 1 /\ converged
     /\ nodes_count = 2 /\ WithoutDiodes(components)
     /\ BranchConductance(roles[1]) > 0
     /\ IsFinite(result[0]) /\ IsFinite(result[1]))
    =>  LET G == BranchConductance(roles[1])
            I == InjectedCurrent(roles[1])
            d == (result[1] - result[0]) * G - I * Scale
        IN  (IF d < 0 THEN -d ELSE d) <= tolerance * G

WithoutVoltageDc(comps) == SelectSeq(comps, LAMBDA c : c.kind # "VoltageDc")

\* C9: voltage sources compile to no roles: the roles, and the charges and
\* delta_v of every loop pass (from which damper, iteration and the returned
\* vector follow), are those of the circuit with its VoltageDc components removed
VoltageDcIgnored ==
    /\ [](roles = BuildRoles(WithoutVoltageDc(components), nodes_count, t_vir))
    /\ [][pc = "loop" =>
            LET rs == BuildRoles(WithoutVoltageDc(components), nodes_count, t_vir)
            IN  /\ charges' = ComputeCharges(rs, voltages, nodes_count)
                /\ delta_vs' = ComputeDeltaVs(rs, charges', damper, nodes_count)]_vars

\* a call on a circuit with a voltage source has returned after a pass that
\* moved the voltages
VoltageDcWitness ==
    /\ pc = "done"
    /\ \E i \in 1 .. Len(components) : components[i].kind = "VoltageDc"
    /\ \E i \in 1 .. Len(components) : components[i].kind # "VoltageDc"
    /\ accepted >= 1
    /\ \E node \in Nodes(nodes_count) : delta_vs[node] # 0

\* C10: a pass with max_delta_v > prev_error leaves voltages as they were at
\* the start of the pass, leaves prev_voltages and prev_error unchanged, halves
\* damper and adds one to iteration; at the head of every pass voltages equal
\* prev_voltages
RejectedPassKeepsState ==
    /\ [](pc = "loop" => voltages = prev_voltages)
    /\ [][(pc = "loop" /\ FGt(max_delta_v', prev_error)) =>
            /\ voltages' = voltages
            /\ prev_voltages' = prev_voltages
            /\ prev_error' = prev_error
            /\ damper' = Halve(damper)
            /\ iteration' = iteration + 1]_vars

\* a pass whose update moved the voltages was reverted
RejectedPassWitness ==
    /\ reverted
    /\ \E node \in Nodes(nodes_count) : delta_vs[node] # 0
    /\ \E node \in Nodes(nodes_count) : voltages[node] # 0

\* C8: the struct-of-arrays functions return vectors of nodes_count entries
\* whose entry for each node is the sum of Role::q_vir_impact, respectively
\* Role::delta_v_impact, over the roles of the node
SoaMatchesRoles ==
    pc = "compiled" =>
        /\ ~soa_q_vir.panic
        /\ soa_q_vir.v = charges
        /\ ~soa_delta_v.panic
        /\ DOMAIN soa_delta_v.v = Nodes(nodes_count)
        /\ soa_delta_v.v = delta_vs

\* C11: the first pass of a call is accepted, every accepted pass has
\* max_delta_v <= the error of the accepted pass before it and stores it in
\* prev_error, and at the head of every pass after the first
\* prev_error >= tolerance.  The tolerances of the calls are numbers (0.0
\* and positive values), not NaN
AcceptedErrorsDecrease ==
    /\ []((pc = "loop" /\ iteration >= 1) => FLe(tolerance, prev_error))
    /\ [][(pc = "loop" /\ iteration = 0) => ~reverted']_vars
    /\ [][(pc = "loop" /\ ~reverted') =>
            /\ FLe(max_delta_v', prev_error)
            /\ prev_error' = max_delta_v'
            /\ accepted' = accepted + 1]_vars

\* the loop goes on after an accepted pass that followed a reverted one, with
\* a smaller error than the first pass had
AcceptedErrorsWitness ==
    /\ pc = "loop" /\ ~reverted /\ tolerance > 0
    /\ accepted >= 2 /\ iteration > accepted
    /\ IsFinite(prev_error) /\ prev_error > 0

====
